---- MODULE Spec2Model ----
(***************************************************************************)
(* Retrieval-augmented chatbot: the Document Store (DocumentProcessor),   *)
(* the Answer Chain (RAGChain), the tool-routing agent (ChatbotAgent) and  *)
(* the command-line shell (CLIChatbot) as one state machine.               *)
(*                                                                         *)
(* The language model, the embedding service, the file system and the     *)
(* vector database are the environment: each call to them either fails    *)
(* (raises) or answers, chosen with \E in the action that makes the call. *)
(* A chat turn is modelled step by step (plan, tool, plan, ...), as the    *)
(* AgentExecutor runs it; every other operation is one atomic action.      *)
(*                                                                         *)
(* Five specifications: Spec is the shell and the agent, with a chain a    *)
(* caller constructs and asks; StoreSpec is a chain or a processor that a  *)
(* caller holds and works on directly (ask, reload, create, search) while  *)
(* the documents of the knowledge base change; RegistrySpec is an agent    *)
(* whose chain is reloaded between its turns; SplitSpec is the text        *)
(* splitter on texts given piece by piece; DataSpec is DataTools and its   *)
(* execute_sql_query on a database file that changes.  In Spec a           *)
(* structured-data tool is the string it returns, and a document is the    *)
(* number of chunks it is split into.                                      *)
(***************************************************************************)
EXTENDS Integers, Sequences, FiniteSets

VARIABLES
    apiKey,             \* OPENAI_API_KEY is set in the environment
    kbDocs,             \* the documents under knowledge_base_path
    disk,               \* the persisted index at persist_directory
    cli,                \* CLIChatbot: position of run()
    obj,                \* the object the caller holds after construction
    ctorError,          \* a constructor raised ValueError to its caller
    agent_executor,     \* ChatbotAgent.agent_executor is not None
    tools,              \* the tool names registered in the executor
    memory,             \* ChatbotAgent.memory.chat_memory.messages
    ragMemory,          \* RAGChain.memory.chat_memory.messages
    dp,                 \* DocumentProcessor: vector_store and documents
    retriever,          \* RAGChain.retriever
    chain,              \* RAGChain.chain is not None
    pc,                 \* position of the chat turn in progress
    input,              \* the message of the turn in progress
    iterations,         \* AgentExecutor's iteration counter of the turn
    intermediate_steps, \* AgentExecutor's list of (action, observation)
    pending,            \* the tool call the model requested
    toolLog,            \* history: the tool invocations made in the turn
    llmCalls,           \* history: calls of the agent's model in the turn
    llmOut,             \* history: the last answer of the agent's model
    nSuccess,           \* history: chats without error since the last clear
    fault,              \* history: the exception the last chat or ask caught
    everFailed,         \* history: some chat or ask has caught an exception
    turnStart,          \* history: the lengths of the memories when chat began
    askTrace,           \* history: what the last ask, if it answered, or the
                        \* last search_documents did; new with every chat
    buildTrace,         \* history: what the last create_vector_store did
    splitDoc,           \* the text handed to the text splitter
    splitChunks,        \* the chunks the text splitter made of splitDoc
    database,           \* the file at DataTools.db_path
    connections,        \* sqlite connections opened and not yet closed
    ret                 \* the value the last call returned

vars == <<apiKey, kbDocs, disk, cli, obj, ctorError, agent_executor, tools,
          memory, ragMemory, dp, retriever, chain, pc, input, iterations,
          intermediate_steps, pending, toolLog, llmCalls, llmOut, nSuccess,
          fault, everFailed, turnStart, askTrace, buildTrace, splitDoc,
          splitChunks, database, connections, ret>>

envVars == <<apiKey, kbDocs>>
splitVars == <<splitDoc, splitChunks>>
dataVars == <<database, connections>>
agentVars == <<agent_executor, tools>>
turnVars == <<pc, input, iterations, intermediate_steps, pending, toolLog,
              llmCalls, llmOut>>
histVars == <<nSuccess, fault, everFailed, turnStart>>
traceVars == <<askTrace, buildTrace>>

-----------------------------------------------------------------------------
(* Bounds of the model *)

\* chat calls that may complete without error between two clears: a turn
\* gets no final answer from the model once the memory holds that many
MaxChats == 2
\* ask calls that may complete without error between two clears: the
\* knowledge-base tool is not asked for once the memory holds that many
MaxAsks == 2
\* chunks a persisted index may hold: no build that would add more
MaxChunks == 6

(* Program constants *)

\* AgentExecutor(max_iterations=3)
MaxIterations == 3
\* get_retriever(k=4) and search_documents(question, k=4)
TopK == 4

-----------------------------------------------------------------------------
(* Values *)

Msgs == {"q1"}
\* texts the agent's model may give as its final answer; it may be empty
Answers == {"", "a1"}
\* texts the Answer Chain's model may give
RagAnswers == {"ra"}

Doc1 == [source |-> "d1", parts |-> 2]
Doc2 == [source |-> "d2", parts |-> 1]
KnowledgeBases == {<<>>, <<Doc1>>, <<Doc1, Doc2>>}

Human(text) == [type |-> "human", content |-> text]
AI(text) == [type |-> "ai", content |-> text]

NoStore == [open |-> FALSE, chunks |-> <<>>]
Store(chunks) == [open |-> TRUE, chunks |-> chunks]

NoIndex == [exists |-> FALSE, chunks |-> <<>>]
Index(chunks) == [exists |-> TRUE, chunks |-> chunks]

Min(a, b) == IF a <= b THEN a ELSE b

\* whether a call to the environment fails: a call that is not made does not
Outcomes(called) == IF called THEN BOOLEAN ELSE {FALSE}

-----------------------------------------------------------------------------
(* DocumentProcessor *)

\* seeded fault (C9): the constructors do not look at the key
ApiKeyNeverMissing(key) == FALSE

\* the checks of OPENAI_API_KEY in the three constructors
ApiKeyMissing(key) == ~key

\* RecursiveCharacterTextSplitter.split_documents: every chunk carries its
\* parent's source; a document of n parts gives n chunks, in order
RECURSIVE SplitOne(_, _)
SplitOne(doc, i) ==
    IF i > doc.parts THEN <<>>
    ELSE <<[source |-> doc.source, part |-> i]>> \o SplitOne(doc, i + 1)

RECURSIVE SplitAll(_)
SplitAll(docs) ==
    IF docs = <<>> THEN <<>>
    ELSE SplitOne(Head(docs), 1) \o SplitAll(Tail(docs))

\* seeded fault (C24): a load that raises leaves the documents read before
\* the exception in self.documents
LoadDocumentsPartial(d, kb, srcFails) ==
    IF srcFails
    THEN [docs |-> <<>>, dp |-> [d EXCEPT !.documents = SubSeq(kb, 1, Len(kb) - 1)]]
    ELSE [docs |-> kb, dp |-> [d EXCEPT !.documents = kb]]

\* load_documents: the documents read, and self.documents afterwards; when
\* either loader raises (srcFails) the except clause returns [] and the
\* assignment of self.documents is not reached
LoadDocuments(d, kb, srcFails) ==
    IF srcFails THEN [docs |-> <<>>, dp |-> d]
    ELSE [docs |-> kb, dp |-> [d EXCEPT !.documents = kb]]

\* split_documents
SplitDocuments(docs) == IF docs = <<>> THEN <<>> ELSE SplitAll(docs)

\* what one call of create_vector_store did: whether documents were given,
\* whether it found a persisted index, whether opening that index raised or
\* gave the store, whether it read the source documents, called the
\* embedding service, and built a store
NoBuild ==
    [called |-> FALSE, explicit |-> FALSE, hadIndex |-> FALSE,
     openFailed |-> FALSE, opened |-> FALSE, read |-> FALSE,
     embedded |-> FALSE, built |-> FALSE]

BuildTrace(explicit, hadIndex, openFailed, opened, read, embedded, built) ==
    [called |-> TRUE, explicit |-> explicit, hadIndex |-> hadIndex,
     openFailed |-> openFailed, opened |-> opened, read |-> read,
     embedded |-> embedded, built |-> built]

\* seeded fault (C16): a persisted index is never opened, the store is always
\* built again
OpensPersistedNever(dsk, explicit, loadFails) == FALSE

\* create_vector_store's way to the persisted index: no documents were
\* given, the directory exists and Chroma opens it
OpensPersisted(dsk, explicit, loadFails) ==
    ~explicit /\ dsk.exists /\ ~loadFails

\* Chroma.from_documents with persist_directory: the chunks are added to the
\* collection at that place, which is new when the directory does not exist
FromDocuments(dsk, chunks) ==
    IF dsk.exists THEN dsk.chunks \o chunks ELSE chunks

\* create_vector_store(documents): the processor and the persisted index
\* afterwards; explicit says that documents were given
CreateVectorStore(d, dsk, kb, explicit, given, loadFails, srcFails, embedFails) ==
    IF OpensPersisted(dsk, explicit, loadFails)
    THEN [dp |-> [d EXCEPT !.vector_store = Store(dsk.chunks)], disk |-> dsk,
          trace |-> BuildTrace(FALSE, TRUE, FALSE, TRUE, FALSE, FALSE, FALSE)]
    ELSE LET loaded == IF explicit THEN [docs |-> <<>>, dp |-> d]
                       ELSE LoadDocuments(d, kb, srcFails)
             chunks == IF explicit THEN given ELSE SplitDocuments(loaded.docs)
             openFailed == ~explicit /\ dsk.exists /\ loadFails
             T(embedded, built) ==
                 BuildTrace(explicit, dsk.exists, openFailed, FALSE, ~explicit,
                            embedded, built)
         IN  IF chunks = <<>>
             THEN [dp |-> loaded.dp, disk |-> dsk, trace |-> T(FALSE, FALSE)]
             ELSE IF embedFails
             THEN [dp |-> loaded.dp, disk |-> dsk, trace |-> T(TRUE, FALSE)]
             ELSE [dp |-> [loaded.dp EXCEPT
                      !.vector_store = Store(FromDocuments(dsk, chunks))],
                   disk |-> Index(FromDocuments(dsk, chunks)),
                   trace |-> T(TRUE, TRUE)]

\* the similarity of a chunk to a query, as the embeddings give it: in this
\* model the chunks of d2 are nearer than those of d1, and a later part of a
\* document is nearer than an earlier one
Score(query, chunk) == IF chunk.source = "d2" THEN 3 ELSE chunk.part

\* the chunk at place j comes before the chunk at place i in the result:
\* it is nearer to the query, or as near and stored earlier
Before(query, chunks, j, i) ==
    \/ Score(query, chunks[j]) > Score(query, chunks[i])
    \/ Score(query, chunks[j]) = Score(query, chunks[i]) /\ j < i

\* the place in the result of the chunk stored at place i
Place(query, chunks, i) ==
    1 + Cardinality({j \in 1..Len(chunks) : Before(query, chunks, j, i)})

\* the k nearest chunks, nearest first
Ranked(query, chunks, k) ==
    [p \in 1..Min(k, Len(chunks)) |->
        chunks[CHOOSE i \in 1..Len(chunks) : Place(query, chunks, i) = p]]

\* seeded fault (C18): the first k chunks in stored order
SimilaritySearchUnranked(store, query, k) ==
    SubSeq(store.chunks, 1, Min(k, Len(store.chunks)))

\* similarity_search(query, k) on an open store
SimilaritySearch(store, query, k) == Ranked(query, store.chunks, k)

\* get_retriever(k): builds the store when there is none; the retriever is
\* bound to the store object it was made from
GetRetriever(d, dsk, kb, loadFails, srcFails, embedFails) ==
    LET made == IF d.vector_store.open
                THEN [dp |-> d, disk |-> dsk, trace |-> NoBuild]
                ELSE CreateVectorStore(d, dsk, kb, FALSE, <<>>, loadFails,
                                       srcFails, embedFails)
    IN  [dp |-> made.dp, disk |-> made.disk, trace |-> made.trace,
         retriever |-> made.dp.vector_store]

NewProcessor == [vector_store |-> NoStore, documents |-> <<>>]

-----------------------------------------------------------------------------
(* Return values: one record shape for every call *)

Ret(op, status, text, error, steps, sources, history) ==
    [op |-> op, status |-> status, text |-> text, error |-> error,
     steps |-> steps, sources |-> sources, history |-> history]

NoRet == Ret("none", "none", "", "", <<>>, <<>>, <<>>)

ChainNotInitialized == "RAG chain not properly initialized"
AskApology == "Sorry, I encountered an error while processing your question."
AgentNotInitialized == "Agent not properly initialized"
ChatApology ==
    "Sorry, I encountered an error while processing your message. Please try again."

-----------------------------------------------------------------------------
(* RAGChain *)

\* seeded fault (C8): the chain is built without looking at the retriever
SetupChainAlways(retr) == TRUE

\* _setup_retriever and _setup_chain: no chain without a retriever
SetupChain(retr) == retr.open

\* RAGChain.__init__ past the key checks
NewRAGChain(dsk, kb, loadFails, srcFails, embedFails) ==
    LET got == GetRetriever(NewProcessor, dsk, kb, loadFails, srcFails, embedFails)
    IN  [dp |-> got.dp, disk |-> got.disk, retriever |-> got.retriever,
         chain |-> SetupChain(got.retriever), memory |-> <<>>,
         trace |-> got.trace]

\* search_documents(query, k): builds the store when there is none; a failed
\* search gives the empty list, as a search that finds nothing does
SearchDocuments(d, dsk, kb, query, k, loadFails, srcFails, embedFails, searchFails) ==
    LET made == IF d.vector_store.open
                THEN [dp |-> d, disk |-> dsk, trace |-> NoBuild]
                ELSE CreateVectorStore(d, dsk, kb, FALSE, <<>>, loadFails,
                                       srcFails, embedFails)
        store == made.dp.vector_store
    IN  [dp |-> made.dp, disk |-> made.disk, trace |-> made.trace,
         failed |-> store.open /\ searchFails,
         docs |-> IF ~store.open \/ searchFails THEN <<>>
                  ELSE SimilaritySearch(store, query, k)]

\* the sources ask returns: one entry per retrieved chunk
Sources(docs) == [i \in 1..Len(docs) |-> docs[i].source]

NoContext == <<"No relevant context found.">>

\* _format_docs: the context of the prompt, one numbered entry per document
\* the chain's retriever gave
FormatDocs(docs) ==
    IF docs = <<>> THEN NoContext
    ELSE [i \in 1..Len(docs) |->
             [n |-> i, source |-> docs[i].source, part |-> docs[i].part]]

\* the chat_history of the chain's prompt: the messages of the chain's own
\* memory when the chain is invoked
ChainHistory(mem) == mem

\* seeded fault (C11): the answer is saved before the question
AskUpdateMemoryAnswerFirst(mem, question, answer) ==
    mem \o <<AI(answer), Human(question)>>

\* the memory after ask has its answer
AskUpdateMemory(mem, question, answer) ==
    mem \o <<Human(question), AI(answer)>>

\* seeded fault (C10): the question is saved before the chain is invoked
AskErrorKeepsQuestion(mem, question) == Append(mem, Human(question))

\* the memory after ask has caught an exception
AskErrorMemory(mem, question) == mem

\* the value ask returns when it has caught an exception
AskErrorResult == Ret("ask", "error", AskApology, "Error generating answer", <<>>, <<>>, <<>>)

\* what one call of ask that answered did: the result of its
\* search_documents call and whether that call failed inside, and the
\* history and the context of the prompt the chain made
NoAsk ==
    [searched |-> FALSE, query |-> "", k |-> 0, searchFailed |-> FALSE,
     found |-> <<>>, prompted |-> FALSE, history |-> <<>>, context |-> <<>>]

AskTrace(query, k, searchFailed, found, prompted, history, context) ==
    [searched |-> TRUE, query |-> query, k |-> k,
     searchFailed |-> searchFailed, found |-> found, prompted |-> prompted,
     history |-> history, context |-> context]

\* ask(question): the return value and the state afterwards. The chain's
\* retriever (retrieveFails) or its model (llmFails) may raise inside
\* chain.invoke; the chain reads the retriever it was built with
Ask(question, mem, d, dsk, kb, retr, ch, answer, loadFails, srcFails, embedFails, searchFails, retrieveFails, llmFails) ==
    IF ~ch
    THEN [ret |-> Ret("ask", "not_initialized", ChainNotInitialized,
                      "Chain initialization failed", <<>>, <<>>, <<>>),
          memory |-> mem, dp |-> d, disk |-> dsk, trace |-> NoAsk]
    ELSE LET found == SearchDocuments(d, dsk, kb, question, TopK, loadFails,
                                      srcFails, embedFails, searchFails)
             context == FormatDocs(SimilaritySearch(retr, question, TopK))
         IN  IF retrieveFails \/ llmFails
             THEN [ret |-> AskErrorResult,
                   memory |-> AskErrorMemory(mem, question),
                   dp |-> found.dp, disk |-> found.disk, trace |-> NoAsk]
             ELSE [ret |-> Ret("ask", "ok", answer, "", <<>>,
                               Sources(found.docs), <<>>),
                   memory |-> AskUpdateMemory(mem, question, answer),
                   dp |-> found.dp, disk |-> found.disk,
                   trace |-> AskTrace(question, TopK, found.failed, found.docs,
                                      TRUE, ChainHistory(mem), context)]

\* shutil.rmtree(persist_directory) when the directory exists
RemoveTree(dsk) == NoIndex

\* reload_documents: the persisted index is removed, create_vector_store
\* runs, then _setup_retriever (whose get_retriever builds again when there
\* is still no store; again holds the failures of that second build) and
\* _setup_chain, which leaves the chain it finds when there is no retriever
ReloadDocuments(d, dsk, kb, ch, loadFails, srcFails, embedFails, again) ==
    LET made == CreateVectorStore(d, RemoveTree(dsk), kb, FALSE, <<>>,
                                  loadFails, srcFails, embedFails)
        got == GetRetriever(made.dp, made.disk, kb, loadFails,
                            again.srcFails, again.embedFails)
    IN  [dp |-> got.dp, disk |-> got.disk, retriever |-> got.retriever,
         chain |-> IF SetupChain(got.retriever) THEN TRUE ELSE ch,
         trace |-> IF got.trace.called THEN got.trace ELSE made.trace]

\* get_conversation_history, of either class
GetConversationHistory(mem) ==
    [i \in 1..Len(mem) |-> [type |-> mem[i].type, content |-> mem[i].content]]

-----------------------------------------------------------------------------
(* DataTools and the tools of the agent *)

RagToolName == "query_knowledge_base"

\* seeded fault (C25): two descriptors under one name
GetLangchainToolsTwice ==
    <<"search_employees", "search_employees", "get_department_statistics",
      "get_revenue_statistics", "execute_data_query">>

\* get_langchain_tools
GetLangchainTools ==
    <<"search_employees", "search_customers", "get_department_statistics",
      "get_revenue_statistics", "execute_data_query">>

\* rag_query: what the knowledge-base tool returns for ask's result
RagQuery(askRet) == [text |-> askRet.text, sources |-> askRet.sources]

\* a structured-data tool: a string, also when it fails inside
DataToolResult(name, fails) ==
    [text |-> IF fails THEN "Error" ELSE "data", sources |-> <<>>]

\* seeded fault (C23): a tool's function lets its exception out
ToolLetsOutAll(fails) == fails

\* the try/except around the body of each of the five structured-data
\* functions, of ask and of rag_query: an exception raised inside becomes
\* the string returned
ToolLetsOut(fails) == FALSE

\* AgentExecutor's answer to a tool name it does not know
InvalidTool == [text |-> "is not a valid tool", sources |-> <<>>]

\* _setup_agent: the executor and the tools it holds; an exception leaves
\* agent_executor None
SetupAgent(setupFails) ==
    IF setupFails THEN [executor |-> FALSE, tools |-> <<>>]
    ELSE [executor |-> TRUE, tools |-> <<RagToolName>> \o GetLangchainTools]

\* the tool names the model asks for in this model: the knowledge base, one
\* structured-data tool, and a name that is not registered
ToolChoices == {RagToolName, "execute_data_query", "no_such_tool"}

IsRegistered(name) == \E i \in 1..Len(tools) : tools[i] = name
-----------------------------------------------------------------------------
(* ChatbotAgent.chat and the AgentExecutor it invokes *)

NoAction == [tool |-> "", arg |-> ""]
NoOut == [kind |-> "none", text |-> ""]
Step(action, observation) ==
    [tool |-> action.tool, arg |-> action.arg, result |-> observation]

\* seeded fault (C2): no iteration bound
ShouldContinueAlways(n) == TRUE

\* seeded fault (C3): the bound is off by one
ShouldContinueOneMore(n) == n <= MaxIterations

\* AgentExecutor._should_continue
ShouldContinue(n) == n < MaxIterations

\* seeded fault (C1): the answer is not saved
SaveContextHumanOnly(mem, message, output) == Append(mem, Human(message))

\* ConversationBufferMemory.save_context, called by the executor when the
\* turn has its output
SaveContext(mem, message, output) == mem \o <<Human(message), AI(output)>>

\* the agent's memory after chat has caught an exception
ChatErrorMemory(mem, message) == mem

\* result.get("intermediate_steps", []): the executor is built without
\* return_intermediate_steps, its result holds "input", "chat_history" and
\* "output" only
ReturnedSteps(steps) == <<>>

\* the value chat returns for the executor's output
ChatResult(output, steps) ==
    Ret("chat", "ok", output, "", ReturnedSteps(steps), <<>>, <<>>)

\* seeded fault (C5): chat has no except clause, the exception reaches the
\* caller
ChatErrorRaised ==
    Ret("chat", "raised", "", "Error processing message", <<>>, <<>>, <<>>)

\* the value chat returns when it has caught an exception
ChatErrorResult ==
    Ret("chat", "error", ChatApology, "Error processing message", <<>>, <<>>, <<>>)

\* the value chat returns when agent_executor is None
NotInitializedResult ==
    Ret("chat", "error", AgentNotInitialized, "Agent setup failed", <<>>, <<>>, <<>>)

ChatPending == Ret("chat", "pending", "", "", <<>>, <<>>, <<>>)

-----------------------------------------------------------------------------
(* Initial state: nothing is constructed yet *)

Init ==
    /\ apiKey \in BOOLEAN
    /\ kbDocs \in KnowledgeBases
    /\ disk \in {NoIndex, Index(SplitAll(<<Doc1>>))}
    /\ cli \in {"none", "start"}
    /\ obj = "none"
    /\ ctorError = FALSE
    /\ agent_executor = FALSE
    /\ tools = <<>>
    /\ memory = <<>>
    /\ ragMemory = <<>>
    /\ dp = NewProcessor
    /\ retriever = NoStore
    /\ chain = FALSE
    /\ pc = "idle"
    /\ input = ""
    /\ iterations = 0
    /\ intermediate_steps = <<>>
    /\ pending = NoAction
    /\ toolLog = <<>>
    /\ llmCalls = 0
    /\ llmOut = NoOut
    /\ nSuccess = 0
    /\ fault = "none"
    /\ everFailed = FALSE
    /\ turnStart = [memory |-> 0, rag |-> 0]
    /\ askTrace = NoAsk
    /\ buildTrace = NoBuild
    /\ splitDoc = <<>>
    /\ splitChunks = <<>>
    /\ database = "present"
    /\ connections = 0
    /\ ret = NoRet

-----------------------------------------------------------------------------
(* Construction *)

\* ChatbotAgent.__init__ past its key check
BuildAgent(loadFails, srcFails, embedFails, setupFails) ==
    LET rag == NewRAGChain(disk, kbDocs, loadFails, srcFails, embedFails)
        set == SetupAgent(setupFails)
    IN  /\ dp' = rag.dp
        /\ disk' = rag.disk
        /\ retriever' = rag.retriever
        /\ chain' = rag.chain
        /\ ragMemory' = rag.memory
        /\ buildTrace' = rag.trace
        /\ memory' = <<>>
        /\ agent_executor' = set.executor
        /\ tools' = set.tools

\* agent = ChatbotAgent(path), called directly
ConstructAgent ==
    /\ cli = "none" /\ obj = "none" /\ ~ctorError
    /\ IF ApiKeyMissing(apiKey)
       THEN /\ ctorError' = TRUE
            /\ UNCHANGED <<obj, disk, agentVars, memory, ragMemory, dp,
                           retriever, chain, buildTrace>>
       ELSE /\ \E loadFails, srcFails, embedFails, setupFails \in BOOLEAN :
                 BuildAgent(loadFails, srcFails, embedFails, setupFails)
            /\ obj' = "agent"
            /\ UNCHANGED ctorError
    /\ UNCHANGED <<envVars, splitVars, dataVars, askTrace, cli, turnVars, histVars, ret>>

\* rag = RAGChain(path), called directly
ConstructRAGChain ==
    /\ cli = "none" /\ obj = "none" /\ ~ctorError
    /\ IF ApiKeyMissing(apiKey)
       THEN /\ ctorError' = TRUE
            /\ UNCHANGED <<obj, disk, ragMemory, dp, retriever, chain,
                           buildTrace>>
       ELSE /\ \E loadFails, srcFails, embedFails \in BOOLEAN :
                 LET rag == NewRAGChain(disk, kbDocs, loadFails, srcFails, embedFails)
                 IN  /\ dp' = rag.dp
                     /\ disk' = rag.disk
                     /\ retriever' = rag.retriever
                     /\ chain' = rag.chain
                     /\ ragMemory' = rag.memory
                     /\ buildTrace' = rag.trace
            /\ obj' = "rag"
            /\ UNCHANGED ctorError
    /\ UNCHANGED <<envVars, splitVars, dataVars, askTrace, cli, agentVars, memory, turnVars,
                   histVars, ret>>

\* processor = DocumentProcessor(path), called directly
ConstructProcessor ==
    /\ cli = "none" /\ obj = "none" /\ ~ctorError
    /\ IF ApiKeyMissing(apiKey)
       THEN ctorError' = TRUE /\ UNCHANGED <<obj, dp>>
       ELSE obj' = "processor" /\ dp' = NewProcessor /\ UNCHANGED ctorError
    /\ UNCHANGED <<envVars, splitVars, dataVars, traceVars, disk, cli, agentVars, memory, ragMemory, retriever,
                   chain, turnVars, histVars, ret>>

\* CLIChatbot.initialize_agent's own look at OPENAI_API_KEY
CliKeyMissing(key) == ~key

\* CLIChatbot.run up to the chat loop: initialize_agent, then sys.exit(1) or
\* chat_loop
CLIRun ==
    /\ cli = "start"
    /\ IF CliKeyMissing(apiKey) \/ ApiKeyMissing(apiKey)
       THEN /\ cli' = "exited"
            /\ UNCHANGED <<obj, disk, agentVars, memory, ragMemory, dp,
                           retriever, chain, buildTrace>>
       ELSE /\ \E loadFails, srcFails, embedFails, setupFails \in BOOLEAN :
                 BuildAgent(loadFails, srcFails, embedFails, setupFails)
            /\ obj' = "agent"
            /\ cli' = IF agent_executor' THEN "loop" ELSE "exited"
    /\ UNCHANGED <<envVars, splitVars, dataVars, askTrace, ctorError, turnVars, histVars, ret>>

\* '/quit' in the chat loop
CLIQuit ==
    /\ cli = "loop" /\ pc = "idle"
    /\ cli' = "quit"
    /\ UNCHANGED <<envVars, splitVars, dataVars, traceVars, disk, obj, ctorError, agentVars, memory, ragMemory,
                   dp, retriever, chain, turnVars, histVars, ret>>

\* the agent exists, its caller is alive and no turn is in progress
AgentIdle == obj = "agent" /\ cli \in {"none", "loop"} /\ pc = "idle"

-----------------------------------------------------------------------------
(* chat *)

\* seeded fault (C7): chat does not test agent_executor
ExecutorNeverMissing(executor) == FALSE

\* chat's test "if not self.agent_executor"
ExecutorMissing(executor) == ~executor

\* chat(message) on an agent whose setup failed
ChatNotInitialized(message) ==
    /\ AgentIdle /\ ExecutorMissing(agent_executor)
    /\ ret' = NotInitializedResult
    /\ fault' = "none"
    /\ turnStart' = [memory |-> Len(memory), rag |-> Len(ragMemory)]
    /\ UNCHANGED <<envVars, splitVars, dataVars, traceVars, disk, cli, obj, ctorError, agentVars, memory,
                   ragMemory, dp, retriever, chain, turnVars, nSuccess,
                   everFailed>>

\* chat(message): agent_executor.invoke begins, the iteration counter and the
\* list of steps are new
ChatStart(message) ==
    /\ AgentIdle /\ ~ExecutorMissing(agent_executor)
    /\ pc' = "selecting"
    /\ input' = message
    /\ iterations' = 0
    /\ intermediate_steps' = <<>>
    /\ toolLog' = <<>>
    /\ llmCalls' = 0
    /\ llmOut' = NoOut
    /\ pending' = NoAction
    /\ ret' = ChatPending
    /\ fault' = "none"
    /\ askTrace' = NoAsk
    /\ turnStart' = [memory |-> Len(memory), rag |-> Len(ragMemory)]
    /\ UNCHANGED <<envVars, splitVars, dataVars, buildTrace, disk, cli, obj, ctorError, agentVars,
                   memory, ragMemory, dp, retriever, chain, nSuccess,
                   everFailed>>

\* the turn ends in chat's except clause
ChatFails(why) ==
    /\ pc' = "idle"
    /\ memory' = ChatErrorMemory(memory, input)
    /\ ret' = ChatErrorResult
    /\ pending' = NoAction
    /\ fault' = why
    /\ everFailed' = TRUE
    /\ UNCHANGED <<envVars, splitVars, dataVars, traceVars, disk, cli, obj, ctorError, agentVars, ragMemory, dp,
                   retriever, chain, input, iterations, intermediate_steps,
                   toolLog, nSuccess, turnStart>>

\* the model call of a step raises
PlanRaises ==
    /\ pc = "selecting" /\ ShouldContinue(iterations)
    /\ llmCalls' = llmCalls + 1
    /\ llmOut' = [kind |-> "raise", text |-> ""]
    /\ ChatFails("model")

\* the model gives its final answer: the executor saves the turn to the
\* agent's memory and chat returns
PlanFinish(text) ==
    /\ pc = "selecting" /\ ShouldContinue(iterations)
    /\ nSuccess < MaxChats
    /\ llmCalls' = llmCalls + 1
    /\ llmOut' = [kind |-> "final", text |-> text]
    /\ memory' = SaveContext(memory, input, text)
    /\ ret' = ChatResult(text, intermediate_steps)
    /\ nSuccess' = nSuccess + 1
    /\ pc' = "idle"
    /\ UNCHANGED <<envVars, splitVars, dataVars, traceVars, disk, cli, obj, ctorError, agentVars, ragMemory, dp,
                   retriever, chain, input, iterations, intermediate_steps,
                   pending, toolLog, fault, everFailed, turnStart>>

\* the model requests a tool
PlanTool(name, arg) ==
    /\ pc = "selecting" /\ ShouldContinue(iterations)
    /\ name = RagToolName => Len(ragMemory) < 2 * MaxAsks
    /\ llmCalls' = llmCalls + 1
    /\ llmOut' = [kind |-> "tool", text |-> ""]
    /\ pending' = [tool |-> name, arg |-> arg]
    /\ pc' = "executing"
    /\ UNCHANGED <<envVars, splitVars, dataVars, traceVars, disk, cli, obj, ctorError, agentVars, memory,
                   ragMemory, dp, retriever, chain, input, iterations,
                   intermediate_steps, toolLog, histVars, ret>>

\* the executor has the step's observation: it is added to the steps and the
\* iteration is counted
RecordStep(observation) ==
    /\ intermediate_steps' = Append(intermediate_steps, Step(pending, observation))
    /\ toolLog' = Append(toolLog, Step(pending, observation))
    /\ iterations' = iterations + 1
    /\ pending' = NoAction
    /\ pc' = "selecting"

\* the knowledge-base tool runs: rag_query calls ask
RunRagTool ==
    /\ pc = "executing" /\ pending.tool = RagToolName /\ IsRegistered(RagToolName)
    /\ \E answer \in RagAnswers :
       \E loadFails \in Outcomes(chain /\ ~dp.vector_store.open /\ disk.exists),
          srcFails, embedFails \in Outcomes(chain /\ ~dp.vector_store.open),
          searchFails, retrieveFails, llmFails \in Outcomes(chain) :
            LET r == Ask(pending.arg, ragMemory, dp, disk, kbDocs, retriever,
                         chain, answer, loadFails, srcFails, embedFails,
                         searchFails, retrieveFails, llmFails)
            IN  IF ToolLetsOut(r.ret.status = "error")
                THEN ChatFails("inside")
                ELSE /\ ragMemory' = r.memory
                     /\ dp' = r.dp
                     /\ disk' = r.disk
                     /\ askTrace' = r.trace
                     /\ RecordStep(RagQuery(r.ret))
                     /\ UNCHANGED <<envVars, splitVars, dataVars, buildTrace,
                                    cli, obj, ctorError, agentVars, memory,
                                    retriever, chain, input, histVars, ret>>
    /\ UNCHANGED <<llmCalls, llmOut>>

\* a structured-data tool runs
RunDataTool ==
    /\ pc = "executing" /\ pending.tool # RagToolName /\ IsRegistered(pending.tool)
    /\ \E fails \in BOOLEAN :
          IF ToolLetsOut(fails)
          THEN ChatFails("inside")
          ELSE /\ RecordStep(DataToolResult(pending.tool, fails))
               /\ UNCHANGED <<envVars, splitVars, dataVars, traceVars, disk,
                              cli, obj, ctorError, agentVars, memory,
                              ragMemory, dp, retriever, chain, input,
                              histVars, ret>>
    /\ UNCHANGED <<llmCalls, llmOut>>

\* the model named a tool that is not registered
RunInvalidTool ==
    /\ pc = "executing" /\ ~IsRegistered(pending.tool)
    /\ RecordStep(InvalidTool)
    /\ UNCHANGED <<envVars, splitVars, dataVars, traceVars, disk, cli, obj, ctorError, agentVars, memory,
                   ragMemory, dp, retriever, chain, input, llmCalls, llmOut,
                   histVars, ret>>

\* the invocation of a registered tool raises before the tool's function
\* runs: the arguments the model gave do not fit the tool's input
ToolRaises ==
    /\ pc = "executing" /\ IsRegistered(pending.tool)
    /\ ChatFails("tool")
    /\ UNCHANGED <<llmCalls, llmOut>>

\* the iteration bound is reached: return_stopped_response is asked for
\* early_stopping_method "generate", which the agent built by
\* create_openai_functions_agent does not support; it raises ValueError
IterationLimit ==
    /\ pc = "selecting" /\ ~ShouldContinue(iterations)
    /\ ChatFails("limit")
    /\ UNCHANGED <<llmCalls, llmOut>>

-----------------------------------------------------------------------------
(* The other operations of the agent, and ask on a chain of its own *)

\* seeded fault (C19): clear leaves the messages
MemoryClearKeeps(mem) == mem

\* ConversationBufferMemory.clear
MemoryClear(mem) == <<>>

\* ChatbotAgent.clear_memory: its own memory, then the chain's
ClearMemory ==
    /\ AgentIdle
    /\ memory' = MemoryClear(memory)
    /\ ragMemory' = MemoryClear(ragMemory)
    /\ nSuccess' = 0
    /\ fault' = "none"
    /\ ret' = Ret("clear", "ok", "", "", <<>>, <<>>, <<>>)
    /\ UNCHANGED <<envVars, splitVars, dataVars, traceVars, disk, cli, obj, ctorError, agentVars, dp, retriever,
                   chain, turnVars, everFailed, turnStart>>

\* ChatbotAgent.get_conversation_history
History ==
    /\ AgentIdle
    /\ fault' = "none"
    /\ ret' = Ret("history", "ok", "", "", <<>>, <<>>,
                  GetConversationHistory(memory))
    /\ UNCHANGED <<envVars, splitVars, dataVars, traceVars, disk, cli, obj, ctorError, agentVars, memory,
                   ragMemory, dp, retriever, chain, turnVars, nSuccess,
                   everFailed, turnStart>>

\* RAGChain.ask(question) on a chain the caller constructed
AskDirect(question) ==
    /\ obj = "rag"
    /\ Len(ragMemory) < 2 * MaxAsks
    /\ \E answer \in RagAnswers :
       \E loadFails \in Outcomes(chain /\ ~dp.vector_store.open /\ disk.exists),
          srcFails, embedFails \in Outcomes(chain /\ ~dp.vector_store.open),
          searchFails, retrieveFails, llmFails \in Outcomes(chain) :
            LET r == Ask(question, ragMemory, dp, disk, kbDocs, retriever,
                         chain, answer, loadFails, srcFails, embedFails,
                         searchFails, retrieveFails, llmFails)
                why == IF ~chain THEN "none"
                       ELSE IF retrieveFails THEN "retrieval"
                       ELSE IF llmFails THEN "model" ELSE "none"
            IN  /\ ragMemory' = r.memory
                /\ dp' = r.dp
                /\ disk' = r.disk
                /\ ret' = r.ret
                /\ askTrace' = r.trace
                /\ fault' = why
                /\ everFailed' = (everFailed \/ why # "none")
    /\ UNCHANGED <<envVars, splitVars, dataVars, buildTrace, cli, obj, ctorError, agentVars, memory, retriever,
                   chain, turnVars, nSuccess, turnStart>>

\* RAGChain.clear_memory on a chain the caller constructed
ClearRagMemory ==
    /\ obj = "rag"
    /\ ragMemory' = MemoryClear(ragMemory)
    /\ fault' = "none"
    /\ ret' = Ret("clear", "ok", "", "", <<>>, <<>>, <<>>)
    /\ UNCHANGED <<envVars, splitVars, dataVars, traceVars, disk, cli, obj, ctorError, agentVars, memory, dp,
                   retriever, chain, turnVars, nSuccess, everFailed, turnStart>>

\* RAGChain.get_conversation_history on a chain the caller constructed
HistoryDirect ==
    /\ obj = "rag"
    /\ fault' = "none"
    /\ ret' = Ret("history", "ok", "", "", <<>>, <<>>,
                  GetConversationHistory(ragMemory))
    /\ UNCHANGED <<envVars, splitVars, dataVars, traceVars, disk, cli, obj, ctorError, agentVars,
                   memory, ragMemory, dp, retriever, chain, turnVars, nSuccess,
                   everFailed, turnStart>>

\* the failures the second build of a reload may meet
Again == [srcFails : BOOLEAN, embedFails : BOOLEAN]

\* RAGChain.reload_documents on a chain the caller constructed, or on the
\* chain of an agent between two turns (agent.rag_chain.reload_documents());
\* when rmtree raises, the except clause ends the call
Reload ==
    /\ obj = "rag" \/ AgentIdle
    /\ \E rmFails \in Outcomes(disk.exists), srcFails, embedFails \in BOOLEAN,
          again \in Again :
          IF rmFails
          THEN /\ buildTrace' = NoBuild
               /\ UNCHANGED <<disk, dp, retriever, chain>>
          ELSE LET r == ReloadDocuments(dp, disk, kbDocs, chain, FALSE,
                                        srcFails, embedFails, again)
               IN  /\ dp' = r.dp
                   /\ disk' = r.disk
                   /\ retriever' = r.retriever
                   /\ chain' = r.chain
                   /\ buildTrace' = r.trace
    /\ fault' = "none"
    /\ ret' = Ret("reload", "ok", "", "", <<>>, <<>>, <<>>)
    /\ UNCHANGED <<envVars, splitVars, dataVars, askTrace, cli, obj, ctorError, agentVars, memory,
                   ragMemory, turnVars, nSuccess, everFailed, turnStart>>

-----------------------------------------------------------------------------
(* The operations of a DocumentProcessor the caller constructed, and the *)
(* knowledge base under them                                             *)

\* processor.load_documents()
LoadDirect ==
    /\ obj = "processor"
    /\ \E srcFails \in BOOLEAN :
          LET loaded == LoadDocuments(dp, kbDocs, srcFails)
          IN  /\ dp' = loaded.dp
              /\ ret' = Ret("load", "ok", "", "", <<>>,
                            [i \in 1..Len(loaded.docs) |-> loaded.docs[i].source],
                            <<>>)
              /\ fault' = IF srcFails THEN "source" ELSE "none"
    /\ UNCHANGED <<envVars, splitVars, dataVars, traceVars, disk, cli, obj, ctorError, agentVars,
                   memory, ragMemory, retriever, chain, turnVars, nSuccess,
                   everFailed, turnStart>>

\* processor.create_vector_store(), or, when explicit,
\* processor.create_vector_store(chunks) with the chunks of the documents
\* the processor has loaded
CreateDirect(explicit) ==
    /\ obj = "processor"
    /\ \E loadFails \in Outcomes(~explicit /\ disk.exists),
          srcFails \in Outcomes(~explicit), embedFails \in BOOLEAN :
          LET r == CreateVectorStore(dp, disk, kbDocs, explicit,
                                     SplitDocuments(dp.documents), loadFails,
                                     srcFails, embedFails)
          IN  /\ Len(r.disk.chunks) <= MaxChunks
              /\ dp' = r.dp
              /\ disk' = r.disk
              /\ buildTrace' = r.trace
              /\ ret' = Ret("create", IF r.trace.opened \/ r.trace.built
                                      THEN "ok" ELSE "none",
                            "", "", <<>>, <<>>, <<>>)
    /\ fault' = "none"
    /\ UNCHANGED <<envVars, splitVars, dataVars, askTrace, cli, obj, ctorError, agentVars, memory,
                   ragMemory, retriever, chain, turnVars, nSuccess, everFailed,
                   turnStart>>

\* processor.search_documents(query, k)
SearchDirect(query, k) ==
    /\ obj = "processor"
    /\ \E loadFails \in Outcomes(~dp.vector_store.open /\ disk.exists),
          srcFails, embedFails \in Outcomes(~dp.vector_store.open),
          searchFails \in BOOLEAN :
          LET r == SearchDocuments(dp, disk, kbDocs, query, k, loadFails,
                                   srcFails, embedFails, searchFails)
          IN  /\ Len(r.disk.chunks) <= MaxChunks
              /\ dp' = r.dp
              /\ disk' = r.disk
              /\ buildTrace' = IF r.trace.called THEN r.trace ELSE buildTrace
              /\ askTrace' = AskTrace(query, k, r.failed, r.docs, FALSE, <<>>, <<>>)
              /\ ret' = Ret("search", "ok", "", "", <<>>, Sources(r.docs), <<>>)
    /\ fault' = "none"
    /\ UNCHANGED <<envVars, splitVars, dataVars, cli, obj, ctorError, agentVars, memory, ragMemory,
                   retriever, chain, turnVars, nSuccess, everFailed, turnStart>>

\* the files of the knowledge base change under a chain or a processor that
\* a caller holds and may rebuild; the agent reads them only in its
\* constructor
EditKnowledgeBase ==
    /\ obj \in {"rag", "processor"}
    /\ kbDocs' \in KnowledgeBases \ {kbDocs}
    /\ UNCHANGED <<apiKey, splitVars, dataVars, traceVars, disk, cli, obj,
                   ctorError, agentVars,
                   memory, ragMemory, dp, retriever, chain, turnVars, histVars,
                   ret>>

-----------------------------------------------------------------------------

\* the steps of a turn in progress
TurnStep ==
    \/ PlanRaises
    \/ \E text \in Answers : PlanFinish(text)
    \/ \E name \in ToolChoices, arg \in Msgs : PlanTool(name, arg)
    \/ IterationLimit
    \/ ToolRaises
    \/ RunInvalidTool
    \/ RunDataTool
    \/ RunRagTool

Next ==
    \/ ConstructAgent
    \/ ConstructRAGChain
    \/ ConstructProcessor
    \/ CLIRun
    \/ CLIQuit
    \/ \E message \in Msgs : ChatNotInitialized(message)
    \/ \E message \in Msgs : ChatStart(message)
    \/ TurnStep
    \/ ClearMemory
    \/ History
    \/ \E question \in Msgs : AskDirect(question)
    \/ ClearRagMemory

Spec == Init /\ [][Next]_vars

\* A chain or a processor that a caller holds and works on directly, while
\* the knowledge base changes: the persisted index may also be a directory
\* that holds no chunk
StoreInit ==
    /\ apiKey = TRUE
    /\ kbDocs \in KnowledgeBases
    /\ disk \in {NoIndex, Index(<<>>), Index(SplitAll(<<Doc1>>))}
    /\ cli = "none"
    /\ obj = "none"
    /\ ctorError = FALSE
    /\ agent_executor = FALSE
    /\ tools = <<>>
    /\ memory = <<>>
    /\ ragMemory = <<>>
    /\ dp = NewProcessor
    /\ retriever = NoStore
    /\ chain = FALSE
    /\ pc = "idle"
    /\ input = ""
    /\ iterations = 0
    /\ intermediate_steps = <<>>
    /\ pending = NoAction
    /\ toolLog = <<>>
    /\ llmCalls = 0
    /\ llmOut = NoOut
    /\ nSuccess = 0
    /\ fault = "none"
    /\ everFailed = FALSE
    /\ turnStart = [memory |-> 0, rag |-> 0]
    /\ askTrace = NoAsk
    /\ buildTrace = NoBuild
    /\ splitDoc = <<>>
    /\ splitChunks = <<>>
    /\ database = "present"
    /\ connections = 0
    /\ ret = NoRet

StoreNext ==
    \/ ConstructRAGChain
    \/ ConstructProcessor
    \/ \E question \in Msgs : AskDirect(question)
    \/ ClearRagMemory
    \/ HistoryDirect
    \/ Reload
    \/ LoadDirect
    \/ \E explicit \in BOOLEAN : CreateDirect(explicit)
    \/ \E query \in Msgs, k \in 1..TopK : SearchDirect(query, k)
    \/ EditKnowledgeBase

StoreSpec == StoreInit /\ [][StoreNext]_vars

-----------------------------------------------------------------------------
(* Properties *)

Alternating(mem) ==
    \A i \in 1..Len(mem) : mem[i].type = (IF i % 2 = 1 THEN "human" ELSE "ai")

\* chat has returned, and what it returned is still the last return value
ChatOk == pc = "idle" /\ ret.op = "chat" /\ ret.status = "ok"
ChatFailed == pc = "idle" /\ ret.op = "chat" /\ ret.status = "error"

\* C1: after N chats without error since construction or the last clear, the
\* agent's memory holds exactly 2N turns, human and assistant alternating and
\* a human turn first; a chat that fails leaves the length of the memory as
\* it was when the chat began.
C1_MemoryInvariant ==
    /\ Len(memory) = 2 * nSuccess
    /\ Alternating(memory)
    /\ ChatFailed => Len(memory) = turnStart.memory

C1_Witness == nSuccess = 2 /\ Len(memory) = 4 /\ ChatFailed /\ fault = "limit"

\* the steps left to a turn in progress: it falls with every step
Rank ==
    IF pc = "idle" THEN 0
    ELSE 2 * (MaxIterations - iterations) + (IF pc = "selecting" THEN 2 ELSE 1)

\* C2 as claimed: whatever the model answers, chat ends within the iteration
\* bound and its response is not empty.
C2_Original ==
    /\ iterations <= MaxIterations
    /\ (ChatOk \/ ChatFailed) => ret.text # ""

\* C2, amended: whatever the model answers, a turn in progress can always
\* take a step, every step brings it nearer its end, and it runs at most
\* MaxIterations iterations; the response chat returns is empty only when
\* the model gave the empty text as its final answer, so it is not empty
\* when the model requests a tool at every step.
C2_Terminates ==
    /\ [](/\ iterations <= MaxIterations
          /\ llmCalls <= MaxIterations
          /\ pc # "idle" => ENABLED TurnStep
          /\ (ChatOk \/ ChatFailed) /\ ret.text = ""
                => llmOut = [kind |-> "final", text |-> ""]
          /\ (pc = "idle" /\ ret.op = "chat" /\ llmOut.kind = "tool")
                => ret.text # "")
    /\ [][pc # "idle" => Rank' < Rank]_vars

C2_Witness ==
    /\ ChatFailed /\ fault = "limit" /\ llmCalls = MaxIterations
    /\ Len(toolLog) = MaxIterations /\ ret.text = ChatApology

\* C3: no turn invokes more than MaxIterations tools, the iteration counter
\* counts the tools of the turn, and both start from nothing when a turn
\* begins.
C3_ToolBound ==
    /\ [](Len(toolLog) <= MaxIterations /\ iterations = Len(toolLog))
    /\ [][pc = "idle" /\ pc' # "idle" => iterations' = 0 /\ toolLog' = <<>>]_vars

C3_Witness ==
    /\ pc = "selecting" /\ Len(toolLog) = MaxIterations
    /\ everFailed /\ nSuccess >= 1

\* C4 as claimed: the intermediate steps chat returns are the tool
\* invocations of the turn, all of them and in their order.
C4_StepsReturned == ChatOk => ret.steps = toolLog

\* C5: an exception in a turn never reaches the caller of chat or ask: the
\* call returns the apology and a diagnostic, and the agent or the chain is
\* left able to take the next call.
C5_NoPropagation ==
    /\ ret.status # "raised"
    /\ (pc = "idle" /\ ret.op = "chat" /\ fault # "none")
          => /\ ret.status = "error" /\ ret.text = ChatApology /\ ret.error # ""
             /\ agent_executor
             /\ AgentIdle => ENABLED (\E m \in Msgs : ChatStart(m))
    /\ (ret.op = "ask" /\ fault # "none")
          => /\ ret.status = "error" /\ ret.text = AskApology /\ ret.error # ""
             /\ chain
             /\ ENABLED (\E q \in Msgs : AskDirect(q))

C5_Witness == everFailed /\ ChatOk /\ ret.text = "a1"

\* C6 as claimed: a chat that fails has added no turn to the agent's memory
\* nor to the Answer Chain's memory.
C6_NoPartialTurns ==
    ChatFailed => /\ Len(memory) = turnStart.memory
                  /\ Len(ragMemory) = turnStart.rag

\* C7: an agent whose setup failed stays without executor; chat on it
\* returns the fixed error response and changes neither memory; no step
\* calls the model or a tool, or changes the tools, the store or the index.
C7_PermanentlyNonOperational ==
    [][(obj = "agent" /\ ~agent_executor)
          => /\ ~agent_executor' /\ pc' = "idle"
             /\ llmCalls' = llmCalls /\ toolLog' = toolLog
             /\ tools' = tools /\ dp' = dp /\ disk' = disk
             /\ retriever' = retriever /\ chain' = chain
             /\ ret'.op = "chat"
                   => /\ ret' = NotInitializedResult
                      /\ memory' = memory /\ ragMemory' = ragMemory]_vars

C7_Witness ==
    /\ obj = "agent" /\ ~agent_executor /\ disk.exists
    /\ ret = NotInitializedResult

\* C8 as claimed: when the Answer Chain has no chain, every chat returns the
\* fixed error response.
C8_Original ==
    (obj = "agent" /\ ~chain /\ pc = "idle" /\ ret.op = "chat")
        => ret = NotInitializedResult

\* C8, amended: when retrieval setup fails the Answer Chain has neither
\* retriever nor chain, but the agent is operational unless its own setup
\* failed: chat returns the fixed error response exactly when there is no
\* executor, and on an agent without chain every call of the knowledge-base
\* tool returns the fixed "not initialized" answer and adds no turn.
C8_ChainlessAgent ==
    obj = "agent" =>
        /\ ~retriever.open => ~chain
        /\ (pc = "idle" /\ ret.op = "chat")
              => (ret = NotInitializedResult <=> ~agent_executor)
        /\ ~chain =>
              /\ ragMemory = <<>>
              /\ \A i \in 1..Len(toolLog) :
                    toolLog[i].tool = RagToolName
                        => toolLog[i].result.text = ChainNotInitialized

C8_Witness ==
    /\ obj = "agent" /\ ~chain /\ ChatOk /\ ret.text = "a1"
    /\ \E i \in 1..Len(toolLog) : toolLog[i].tool = RagToolName

\* C9: without the API key every constructor raises to its caller, no
\* object is ever held, and the shell exits without entering its chat loop.
C9_ConfigurationError ==
    /\ [](~apiKey => /\ obj = "none" /\ ~agent_executor /\ pc = "idle"
                     /\ cli \notin {"loop", "quit"})
    /\ [][~apiKey => /\ cli = "none" => ctorError'
                     /\ cli = "start" => cli' = "exited"]_vars

C9_Witness == ~apiKey /\ ctorError /\ obj = "none"

\* C10: an ask that fails in retrieval or in the model call returns the apology, no sources and a
\* diagnostic, and leaves the Answer Chain's memory as it was: whole
\* question-answer pairs only.
C10_AskFailure ==
    /\ [](/\ Alternating(ragMemory)
          /\ Len(ragMemory) % 2 = 0
          /\ (ret.op = "ask" /\ fault \in {"retrieval", "model"})
                => /\ ret.status = "error" /\ ret.text = AskApology
                   /\ ret.sources = <<>> /\ ret.error # "")
    /\ [][(ret'.op = "ask" /\ fault' \in {"retrieval", "model"})
              => ragMemory' = ragMemory]_vars
    /\ [][(pc = "executing" /\ pc' = "selecting"
           /\ toolLog'[Len(toolLog')].result.text = AskApology)
              => ragMemory' = ragMemory]_vars

C10_Witness ==
    /\ ret.op = "ask" /\ fault = "retrieval" /\ Len(ragMemory) = 2
    /\ ret.text = AskApology

-----------------------------------------------------------------------------
(* Properties of the Answer Chain and the Document Store *)

\* ask has answered, and what it returned is still the last return value
AskOk == ret.op = "ask" /\ ret.status = "ok"

\* C11: an ask that answers adds exactly two turns to the Answer Chain's
\* memory, the question as a human turn and then the answer as it was
\* returned, and the history in the prompt of that ask is the memory as it
\* was before the two turns were added.
C11_AskAppendsPair ==
    /\ [](AskOk => /\ askTrace.prompted
                   /\ ragMemory = askTrace.history
                         \o <<Human(askTrace.query), AI(ret.text)>>)
    /\ [][(ret'.op = "ask" /\ ragMemory' # ragMemory)
              => /\ ret'.status = "ok"
                 /\ askTrace'.history = ragMemory
                 /\ Len(ragMemory') = Len(ragMemory) + 2]_vars

C11_Witness ==
    /\ AskOk /\ Len(askTrace.history) = 2 /\ Len(ragMemory) = 4
    /\ ragMemory[3] = Human("q1") /\ ragMemory[4] = AI(ret.text)

\* a sequence with every element once, at its first place
RECURSIVE Deduplicated(_)
Deduplicated(seq) ==
    IF seq = <<>> THEN <<>>
    ELSE LET front == Deduplicated(SubSeq(seq, 1, Len(seq) - 1))
             last == seq[Len(seq)]
         IN  IF \E i \in 1..Len(front) : front[i] = last THEN front
             ELSE Append(front, last)

\* C12 as claimed: the sources an ask that answers returns are the sources
\* of the chunks it retrieved, in retrieval order and each only once.
C12_SourcesDeduplicated ==
    AskOk => /\ ret.sources = Deduplicated(Sources(askTrace.found))
             /\ \A i, j \in 1..Len(ret.sources) :
                   ret.sources[i] = ret.sources[j] => i = j

\* C13 as claimed: on an empty knowledge base with no persisted index, ask
\* returns an answer with no sources and no diagnostic.
C13_EmptyKnowledgeBase ==
    (ret.op = "ask" /\ kbDocs = <<>> /\ ~disk.exists /\ ~dp.vector_store.open)
        => ret.status = "ok" /\ ret.sources = <<>> /\ ret.error = ""

\* C14 as claimed: a build in which the embedding service fails leaves the
\* persisted index as it was before the call that built, whether that call
\* was a construction, a create_vector_store with or without chunks, or a
\* reload.
C14_BuildFailureKeepsIndex ==
    [][(buildTrace'.called /\ buildTrace'.embedded /\ ~buildTrace'.built)
          => disk' = disk]_vars

\* C15 as claimed: a search that fails inside gives the empty result and a
\* signal of the failure: what search_documents or the ask around it returns
\* tells the failed search from one that found nothing.
C15_SearchErrorSignal ==
    (ret.op \in {"search", "ask"} /\ askTrace.searched /\ askTrace.searchFailed)
        => askTrace.found = <<>> /\ ret.status = "error" /\ ret.error # ""

\* a step of create_vector_store called on a processor
CreateStep == ret'.op = "create" /\ kbDocs' = kbDocs

\* C16 as claimed: whenever a persisted index exists and no documents are
\* given, create_vector_store loads it and neither calls the embedding
\* service nor reads the documents; when none exists it reads them.
C16_Original ==
    (buildTrace.called /\ ~buildTrace.explicit)
        => /\ buildTrace.hadIndex
                 => /\ buildTrace.opened
                    /\ ~buildTrace.read /\ ~buildTrace.embedded
           /\ ~buildTrace.hadIndex => buildTrace.read

\* C16, amended: when a persisted index exists, no documents are given and
\* the index opens, create_vector_store loads it and neither calls the
\* embedding service nor reads the documents: the persisted index stays as
\* it is and the store holds its chunks, so a second build gives what the
\* first gave. When no index exists, or opening it raises, the documents are
\* read again; a build where no index existed persists their chunks.
C16_BuildOnce ==
    /\ []((buildTrace.called /\ ~buildTrace.explicit)
            => /\ (buildTrace.hadIndex /\ ~buildTrace.openFailed)
                     => /\ buildTrace.opened
                        /\ ~buildTrace.read /\ ~buildTrace.embedded
               /\ (~buildTrace.hadIndex \/ buildTrace.openFailed)
                     => ~buildTrace.opened /\ buildTrace.read)
    /\ [][(CreateStep /\ buildTrace'.opened)
              => disk' = disk /\ dp'.vector_store = Store(disk.chunks)]_vars
    /\ [][(CreateStep /\ ~buildTrace'.explicit /\ ~buildTrace'.hadIndex
           /\ buildTrace'.built)
              => /\ disk' = Index(SplitAll(kbDocs))
                 /\ dp'.vector_store = Store(SplitAll(kbDocs))]_vars

C16_Witness ==
    /\ ret.op = "create" /\ buildTrace.opened /\ dp.documents # <<>>
    /\ disk = Index(SplitAll(dp.documents))
    /\ dp.vector_store = Store(disk.chunks)

\* a step of reload_documents that did not end in its except clause
ReloadStep == ret'.op = "reload" /\ kbDocs' = kbDocs /\ buildTrace'.called

\* C17 as claimed: when reload_documents has run, the persisted index and
\* the store hold exactly the chunks of the source documents as they are
\* now, and the retriever and the chain that later asks use read that store.
C17_ReloadRebuilds ==
    [][ReloadStep
          => /\ disk'.chunks = SplitAll(kbDocs)
             /\ dp'.vector_store.chunks = SplitAll(kbDocs)
             /\ retriever' = dp'.vector_store
             /\ dp'.vector_store.open => chain']_vars

\* C18: whatever the store holds and for every k >= 1, search_documents
\* returns at most k chunks, a nearer chunk never after a farther one, and
\* it returns the empty sequence as a normal result when the store holds no
\* chunk or there is no store.
C18_SearchBounded ==
    askTrace.searched
        => /\ askTrace.k >= 1
           /\ Len(askTrace.found) <= askTrace.k
           /\ \A i, j \in 1..Len(askTrace.found) :
                 i < j => Score(askTrace.query, askTrace.found[i])
                             >= Score(askTrace.query, askTrace.found[j])
           /\ ret.op = "search"
                 => /\ ret.status = "ok" /\ ret.error = ""
                    /\ dp.vector_store.chunks = <<>> => askTrace.found = <<>>
                    /\ (~askTrace.searchFailed
                        /\ Len(dp.vector_store.chunks) >= askTrace.k)
                          => Len(askTrace.found) = askTrace.k

C18_Witness ==
    /\ ret.op = "search" /\ askTrace.k = 2 /\ Len(dp.vector_store.chunks) = 3
    /\ Len(askTrace.found) = 2 /\ askTrace.found[1].source = "d2"
    /\ askTrace.found[2] = [source |-> "d1", part |-> 2]

\* C19: after a clear the memory is empty and its snapshot is the empty
\* sequence, whatever came before; the agent's clear_memory empties its own
\* memory and the Answer Chain's; the chats without error after a clear are
\* again counted from nothing, two turns each.
C19_ClearEmpties ==
    /\ [](/\ ret.op = "clear"
                => /\ ragMemory = <<>>
                   /\ obj = "agent" => memory = <<>>
          /\ Len(memory) = 2 * nSuccess)
    /\ [][(ret.op = "clear" /\ ret'.op = "history")
              => ret'.history = <<>>]_vars
    /\ [][(ret'.op = "clear" /\ ret.op # "clear") => nSuccess' = 0]_vars

C19_Witness ==
    /\ obj = "agent" /\ ret.op = "history" /\ ret.history = <<>>
    /\ turnStart.memory = 2 /\ memory = <<>> /\ ragMemory = <<>>

\* C20 as claimed: the Answer Chain and the agent read one log: the history
\* the chain puts in its prompt is the agent's history, in every state.
C20_SharedLog ==
    obj = "agent" => ChainHistory(ragMemory) = memory

-----------------------------------------------------------------------------
(* The text splitter of the DocumentProcessor *)

\* RecursiveCharacterTextSplitter(chunk_size=1000, chunk_overlap=200,
\* length_function=len, separators=["\n\n", "\n", " ", ""])
chunk_size == 1000
chunk_overlap == 200

\* the longest text, in pieces, and the calls of split_documents followed
MaxPieces == 4
MaxSplits == 2

\* A text is the sequence of the pieces its first separator cuts it into.
\* The splitter keeps each separator at the head of the piece after it:
\* lead is the whitespace a piece begins with, body the rest of it.  Every
\* piece is shorter than chunk_size, so the splitter merges the pieces of
\* this one level and does not descend to the next separator.
Piece(lead, body) == [lead |-> lead, body |-> body]
Pieces == {Piece(0, 100), Piece(2, 98), Piece(2, 298), Piece(2, 898)}
Texts == UNION {[1..n -> Pieces] : n \in 0..MaxPieces}

\* length_function=len
PieceLen(p) == p.lead + p.body

\* len of the pieces a..b joined by the empty separator
RECURSIVE Total(_, _, _)
Total(splits, a, b) ==
    IF a > b THEN 0 ELSE PieceLen(splits[a]) + Total(splits, a + 1, b)

\* len(text)
TextLen(splits) == Total(splits, 1, Len(splits))

\* _join_docs: the pieces a..b joined and stripped of the whitespace around
\* them; None, here no chunk, when nothing is left
JoinDocs(splits, a, b) ==
    IF a > b \/ Total(splits, a, b) - splits[a].lead = 0
    THEN <<>>
    ELSE <<[from |-> a, to |-> b,
            length |-> Total(splits, a, b) - splits[a].lead]>>

\* the condition of the while loop of _merge_splits, with the current
\* pieces s..i-1 and piece i waiting
KeepsPopping(splits, s, i) ==
    LET total == Total(splits, s, i - 1)
    IN  \/ total > chunk_overlap
        \/ (total + PieceLen(splits[i]) > chunk_size /\ total > 0)

\* seeded fault (C21): the pieces of the chunk just made all stay
PopFrontNever(splits, start, i) == start

\* the while loop of _merge_splits: the first piece that stays for the
\* next chunk
PopFront(splits, start, i) ==
    CHOOSE s \in start..i :
        /\ ~KeepsPopping(splits, s, i)
        /\ \A t \in start..(s - 1) : KeepsPopping(splits, t, i)

\* _merge_splits from piece i on, with the current pieces start..i-1
RECURSIVE MergeSplits(_, _, _, _)
MergeSplits(splits, i, start, docs) ==
    IF i > Len(splits) THEN docs \o JoinDocs(splits, start, Len(splits))
    ELSE IF /\ Total(splits, start, i - 1) + PieceLen(splits[i]) > chunk_size
            /\ start <= i - 1
         THEN MergeSplits(splits, i + 1, PopFront(splits, start, i),
                          docs \o JoinDocs(splits, start, i - 1))
         ELSE MergeSplits(splits, i + 1, start, docs)

\* split_text
SplitText(splits) == MergeSplits(splits, 1, 1, <<>>)

\* processor.split_documents([document]) on a processor the caller holds
SplitDirect ==
    /\ obj = "processor"
    /\ Len(splitChunks) < MaxSplits
    /\ splitChunks' = Append(splitChunks, SplitText(splitDoc))
    /\ ret' = Ret("split", "ok", "", "", <<>>, <<>>, <<>>)
    /\ UNCHANGED <<envVars, splitDoc, dataVars, traceVars, disk, cli, obj,
                   ctorError, agentVars, memory, ragMemory, dp, retriever,
                   chain, turnVars, histVars>>

SplitInit ==
    /\ apiKey = TRUE
    /\ kbDocs = <<>>
    /\ disk = NoIndex
    /\ cli = "none"
    /\ obj = "none"
    /\ ctorError = FALSE
    /\ agent_executor = FALSE
    /\ tools = <<>>
    /\ memory = <<>>
    /\ ragMemory = <<>>
    /\ dp = NewProcessor
    /\ retriever = NoStore
    /\ chain = FALSE
    /\ pc = "idle"
    /\ input = ""
    /\ iterations = 0
    /\ intermediate_steps = <<>>
    /\ pending = NoAction
    /\ toolLog = <<>>
    /\ llmCalls = 0
    /\ llmOut = NoOut
    /\ nSuccess = 0
    /\ fault = "none"
    /\ everFailed = FALSE
    /\ turnStart = [memory |-> 0, rag |-> 0]
    /\ askTrace = NoAsk
    /\ buildTrace = NoBuild
    /\ splitDoc \in Texts
    /\ splitChunks = <<>>
    /\ database = "present"
    /\ connections = 0
    /\ ret = NoRet

SplitNext ==
    \/ ConstructProcessor
    \/ SplitDirect

SplitSpec == SplitInit /\ [][SplitNext]_vars

\* the characters two consecutive chunks c, d of a text share
Overlap(splits, c, d) ==
    IF d.from > c.to THEN 0
    ELSE Total(splits, d.from, c.to) - splits[d.from].lead

\* the chunks are in the order of the text and every piece is in one
InOrder(splits, chunks) ==
    /\ \A j \in 1..Len(chunks) : chunks[j].from <= chunks[j].to
    /\ \A j \in 1..(Len(chunks) - 1) :
          /\ chunks[j].from < chunks[j + 1].from
          /\ chunks[j + 1].from <= chunks[j].to + 1
    /\ chunks # <<>> => chunks[1].from = 1 /\ chunks[Len(chunks)].to = Len(splits)

-----------------------------------------------------------------------------
(* DataTools.execute_sql_query *)

\* the connections followed at a time
MaxConnections == 3

\* the file at db_path: absent; a database with the tables; a path that
\* sqlite3.connect cannot open; a file that opens but whose queries raise
DbStates == {"missing", "present", "unopenable", "broken"}

\* A query description is the set of the phrases it holds, as written
Phrases == {"COUNT", "count", "employee", "customer", "avg salary", "list",
            "departments"}
Descriptions == SUBSET Phrases \ {{"COUNT", "count"}}

\* str.lower
Lower(description) ==
    {IF w = "COUNT" THEN "count" ELSE w : w \in description}

\* the keyword mapping of execute_sql_query, in its order
Template(description) ==
    LET query_lower == Lower(description)
    IN  IF "count" \in query_lower /\ "employee" \in query_lower
        THEN "employee_count"
        ELSE IF "count" \in query_lower /\ "customer" \in query_lower
        THEN "customer_count"
        ELSE IF "average salary" \in query_lower \/ "avg salary" \in query_lower
        THEN "average_salary"
        ELSE IF "highest salary" \in query_lower \/ "max salary" \in query_lower
        THEN "highest_salary"
        ELSE IF "departments" \in query_lower /\ "list" \in query_lower
        THEN "departments"
        ELSE IF "industries" \in query_lower /\ "list" \in query_lower
        THEN "industries"
        ELSE "none"

\* the strings execute_sql_query returns; the description quoted in the
\* third is the call's argument, and the rows of a query are named by it
NotAvailable == "Database not available."
QueryError == "Error executing query"
CouldNotUnderstand(description) == "I couldn't understand how to query"
QueryResult(query) == query

\* seeded fault (C22): the file at db_path is taken to be there
ExistsAlways(db) == TRUE

\* os.path.exists(self.db_path)
Exists(db) == db # "missing"

\* execute_sql_query: the string returned and the connections left open,
\* of which conns were open before.  sqlite3.connect, the mapping and
\* pd.read_sql_query are inside the try; conn.close() follows the query
\* only
ExecuteSqlQuery(db, description, conns, queryFails) ==
    IF ~Exists(db)
    THEN [text |-> NotAvailable, connections |-> conns]
    ELSE IF db = "unopenable"
    THEN [text |-> QueryError, connections |-> conns]
    ELSE IF Template(description) = "none"
    THEN [text |-> CouldNotUnderstand(description),
          connections |-> conns + 1]
    ELSE IF db # "present" \/ queryFails
    THEN [text |-> QueryError, connections |-> conns + 1]
    ELSE [text |-> QueryResult(Template(description)),
          connections |-> conns]

\* tools = DataTools(directory), called directly: _load_csv_data catches
\* what it raises
ConstructDataTools ==
    /\ cli = "none" /\ obj = "none" /\ ~ctorError
    /\ obj' = "data"
    /\ UNCHANGED <<envVars, splitVars, dataVars, traceVars, disk, cli,
                   ctorError, agentVars, memory, ragMemory, dp, retriever,
                   chain, turnVars, histVars, ret>>

\* tools.execute_sql_query(description); input is the description given
QueryDirect(description) ==
    /\ obj = "data"
    /\ connections < MaxConnections
    /\ \E queryFails \in Outcomes(database = "present") :
          LET r == ExecuteSqlQuery(database, description, connections,
                                   queryFails)
          IN  /\ connections' = r.connections
              /\ ret' = Ret("query", "ok", r.text, "", <<>>, <<>>, <<>>)
    /\ input' = description
    /\ UNCHANGED <<envVars, splitVars, database, traceVars, disk, cli, obj,
                   ctorError, agentVars, memory, ragMemory, dp, retriever,
                   chain, pc, iterations, intermediate_steps, pending,
                   toolLog, llmCalls, llmOut, histVars>>

\* the interpreter finalizes a connection nothing refers to any more, which
\* closes it; when it does so is left to the interpreter
Finalize ==
    /\ connections > 0
    /\ connections' = connections - 1
    /\ UNCHANGED <<envVars, splitVars, database, traceVars, disk, cli, obj,
                   ctorError, agentVars, memory, ragMemory, dp, retriever,
                   chain, turnVars, histVars, ret>>

\* the file at db_path is created, removed or replaced
EditDatabase ==
    /\ obj = "data"
    /\ database' \in DbStates \ {database}
    /\ UNCHANGED <<envVars, splitVars, connections, traceVars, disk, cli,
                   obj, ctorError, agentVars, memory, ragMemory, dp,
                   retriever, chain, turnVars, histVars, ret>>

DataInit ==
    /\ apiKey \in BOOLEAN
    /\ kbDocs = <<>>
    /\ disk = NoIndex
    /\ cli = "none"
    /\ obj = "none"
    /\ ctorError = FALSE
    /\ agent_executor = FALSE
    /\ tools = <<>>
    /\ memory = <<>>
    /\ ragMemory = <<>>
    /\ dp = NewProcessor
    /\ retriever = NoStore
    /\ chain = FALSE
    /\ pc = "idle"
    /\ input = {}
    /\ iterations = 0
    /\ intermediate_steps = <<>>
    /\ pending = NoAction
    /\ toolLog = <<>>
    /\ llmCalls = 0
    /\ llmOut = NoOut
    /\ nSuccess = 0
    /\ fault = "none"
    /\ everFailed = FALSE
    /\ turnStart = [memory |-> 0, rag |-> 0]
    /\ askTrace = NoAsk
    /\ buildTrace = NoBuild
    /\ splitDoc = <<>>
    /\ splitChunks = <<>>
    /\ database \in DbStates
    /\ connections = 0
    /\ ret = NoRet

DataNext ==
    \/ ConstructDataTools
    \/ \E description \in Descriptions : QueryDirect(description)
    \/ Finalize
    \/ EditDatabase

DataSpec == DataInit /\ [][DataNext]_vars

\* a step that is a call of execute_sql_query
QueryStep ==
    ret'.op = "query" /\ database' = database /\ connections' >= connections

\* C22 as stated: a description that matches no template gets the "could
\* not understand" string, and the call returns, whatever the data
\* directory holds.
C22_Original ==
    [][(QueryStep /\ Template(input') = "none") =>
          /\ ret'.status = "ok"
          /\ ret'.text = CouldNotUnderstand(input')]_vars

\* C22 amended: the call always returns a string; a description that matches
\* no template gets the "could not understand" string when the database
\* file is there and opens, "Database not available." when the file is not
\* there, and the "Error executing query" string when it cannot be opened.
C22_Unmatched ==
    [][(QueryStep /\ Template(input') = "none") =>
          /\ ret'.status = "ok"
          /\ database \in {"present", "broken"} =>
                ret'.text = CouldNotUnderstand(input')
          /\ database = "missing" => ret'.text = NotAvailable
          /\ database = "unopenable" => ret'.text = QueryError]_vars

\* a description in capitals that matches no template was answered with
\* the "could not understand" string
C22_Witness ==
    /\ ret.op = "query"
    /\ "COUNT" \in input
    /\ Template(input) = "none"
    /\ ret.text = CouldNotUnderstand(input)

-----------------------------------------------------------------------------
(* Exceptions inside the tools, the tool registry *)

\* C23: an exception raised inside the function of a registered tool never
\* reaches the executor: the turn is only ever ended from a tool call by the
\* invocation itself raising before the function runs, and every function
\* that ran left its string as the step's observation and the loop at its
\* next step.
C23_ToolErrorsCaught ==
    /\ [](fault # "inside")
    /\ [][(pc = "executing" /\ IsRegistered(pending.tool)) =>
             \/ /\ pc' = "idle" /\ fault' = "tool" /\ toolLog' = toolLog
             \/ /\ pc' = "selecting"
                /\ Len(toolLog') = Len(toolLog) + 1
                /\ toolLog'[Len(toolLog')].tool = pending.tool
                /\ toolLog'[Len(toolLog')].result.text # ""
                /\ ret' = ret]_vars

\* a turn in which a structured-data function and ask both failed inside
\* went on to the model's final answer
C23_Witness ==
    /\ ChatOk
    /\ \E i \in 1..Len(toolLog) :
          /\ toolLog[i].tool = "execute_data_query"
          /\ toolLog[i].result.text = "Error"
    /\ \E i \in 1..Len(toolLog) :
          /\ toolLog[i].tool = RagToolName
          /\ toolLog[i].result.text = AskApology

\* a step that is a call of load_documents
LoadStep == ret'.op = "load" /\ kbDocs' = kbDocs

\* C24: load_documents always returns; when reading the source raises, or
\* the source holds no document, it returns no document; a load that raised
\* leaves the documents loaded before as they were, one that read an empty
\* source leaves none; and the processor takes the next call.
C24_LoadFailsSoftly ==
    /\ [][LoadStep =>
             /\ ret'.status = "ok"
             /\ fault' = "source" =>
                   ret'.sources = <<>> /\ dp'.documents = dp.documents
             /\ (fault' = "none" /\ kbDocs = <<>>) =>
                   ret'.sources = <<>> /\ dp'.documents = <<>>
             /\ fault' = "none" => dp'.documents = kbDocs]_vars
    /\ [](ret.op = "load" => obj = "processor" /\ ENABLED LoadDirect)

\* a load raised on a processor that had loaded two documents: it returned
\* none and the two are still there
C24_Witness ==
    /\ ret.op = "load" /\ fault = "source"
    /\ ret.sources = <<>>
    /\ Len(dp.documents) = 2

-----------------------------------------------------------------------------
(* An agent whose chain is reloaded between its turns *)

RegistryInit ==
    /\ Init
    /\ apiKey = TRUE
    /\ kbDocs = <<Doc1>>
    /\ disk = NoIndex
    /\ cli = "none"

RegistryNext ==
    \/ ConstructAgent
    \/ \E message \in Msgs : ChatNotInitialized(message)
    \/ \E message \in Msgs : ChatStart(message)
    \/ TurnStep
    \/ ClearMemory
    \/ History
    \/ Reload

RegistrySpec == RegistryInit /\ [][RegistryNext]_vars

\* C25: an executor that was built holds six tools, the knowledge-base tool
\* first and the structured-data tools after it, no two under one name; and
\* no step of an agent (chat, clear_memory, get_conversation_history, a
\* reload of its chain) changes the tools.
C25_RegistryFixed ==
    /\ [](agent_executor =>
             /\ Len(tools) = 6
             /\ tools[1] = RagToolName
             /\ \A i \in 2..Len(tools) : tools[i] = GetLangchainTools[i - 1]
             /\ \A i, j \in 1..Len(tools) : tools[i] = tools[j] => i = j)
    /\ [][obj = "agent" => tools' = tools]_vars

\* the chain of an agent that has answered a chat and called a tool was
\* reloaded
C25_Witness ==
    /\ agent_executor
    /\ ret.op = "reload"
    /\ nSuccess >= 1
    /\ toolLog # <<>>
    /\ buildTrace.called

-----------------------------------------------------------------------------
(* The two retrievals of ask, the store after a reload, the connections *)

\* C26 as claimed: the sources an ask that answers returns are those of the
\* chunks its prompt held as context, and it returns no source exactly when
\* the context was the "No relevant context found." marker.
C26_SourcesAreContext ==
    AskOk => /\ askTrace.context = FormatDocs(askTrace.found)
             /\ ret.sources = <<>> <=> askTrace.context = NoContext

\* C27 as claimed: when reload_documents has removed a persisted index and
\* returned, either the rebuild made a store and the store, the retriever
\* and the chain are on the new index, or all three are unavailable.
C27_NoRemovedIndex ==
    [][(ReloadStep /\ disk.exists)
          => \/ /\ buildTrace'.built
                /\ dp'.vector_store.open
                /\ dp'.vector_store.chunks = disk'.chunks
                /\ retriever' = dp'.vector_store
                /\ chain'
             \/ /\ ~dp'.vector_store.open
                /\ ~retriever'.open
                /\ ~chain']_vars

\* C28 as claimed: no connection that execute_sql_query opened is open when
\* no call is running.
C28_NoOpenConnection == connections = 0

====
